---------------------------- MODULE Spec2Model ----------------------------
(***************************************************************************)
(* Monte Carlo option pricing engine (src/monte_carlo.py).                 *)
(*                                                                         *)
(* The engine holds n_simulations and a stateful generator rng.            *)
(* simulate_paths draws an n_simulations x n_steps matrix of normals and   *)
(* fills a price grid column by column; price_option calls simulate_paths  *)
(* with the default step count and reduces the last column to a price, a   *)
(* standard error and a confidence interval.                               *)
(*                                                                         *)
(* Numbers are a scaled-down binary floating point format: a finite value  *)
(* is an integer count of units of 1/Scale carrying at most Mant           *)
(* significant bits, every operation rounds its exact result to the        *)
(* nearest such value (ties to even), results above FloatMax become        *)
(* infinite, results below half a unit become 0, and the invalid           *)
(* operations (inf - inf, 0 * inf, 0 / 0, sqrt of a negative) give NaN.    *)
(***************************************************************************)
EXTENDS Integers, Sequences, FiniteSets

\* ------------------------------------------------------------------------
\* float64, scaled down
\* ------------------------------------------------------------------------

\* units per 1.0: the spacing of the smallest values is 1/Scale
Scale == 1024

\* significant bits of a finite value
Mant == 6

\* the largest finite value, in units: (2^Mant - 1) * 2^9
FloatMax == 32256

PInf == FloatMax + 1

NInf == -PInf

NaN == FloatMax + 2

IsNaN(a) == a = NaN

IsInf(a) == a = PInf \/ a = NInf

IsFinite(a) == ~IsNaN(a) /\ ~IsInf(a)

Abs(n) == IF n < 0 THEN -n ELSE n

Sign(n) == IF n < 0 THEN -1 ELSE IF n > 0 THEN 1 ELSE 0

\* the first magnitude, in units, that needs more than Mant bits
MantLimit == 2^Mant

\* the spacing of the representable values around a magnitude of f units
RECURSIVE Quantum(_)
Quantum(f) == IF f < MantLimit THEN 1 ELSE 2 * Quantum(f \div 2)

\* num/den >= 0 rounded to the nearest representable magnitude, ties to even
RoundMag(num, den) ==
    LET q   == Quantum(num \div den)
        dd  == den * q
        g   == num \div dd
        rem == num % dd
        up  == 2 * rem > dd \/ (2 * rem = dd /\ g % 2 = 1)
    IN  (IF up THEN g + 1 ELSE g) * q

\* the float nearest to the exact quotient num/den (den # 0)
RoundQ(num, den) ==
    LET s == Sign(num) * Sign(den)
        m == RoundMag(Abs(num), Abs(den))
    IN  IF m > FloatMax THEN (IF s < 0 THEN NInf ELSE PInf) ELSE s * m

\* int -> float conversion
ToFloat(n) == RoundQ(n * Scale, 1)

One == ToFloat(1)

Two == ToFloat(2)

Three == ToFloat(3)

FNeg(a) == IF IsNaN(a) THEN NaN ELSE -a

FAdd(a, b) ==
    IF IsNaN(a) \/ IsNaN(b) THEN NaN
    ELSE IF IsInf(a) THEN (IF IsInf(b) /\ b # a THEN NaN ELSE a)
    ELSE IF IsInf(b) THEN b
    ELSE RoundQ(a + b, 1)

FSub(a, b) == FAdd(a, FNeg(b))

FMul(a, b) ==
    IF IsNaN(a) \/ IsNaN(b) THEN NaN
    ELSE IF IsInf(a) \/ IsInf(b)
         THEN (IF a = 0 \/ b = 0 THEN NaN
               ELSE IF Sign(a) * Sign(b) < 0 THEN NInf ELSE PInf)
    ELSE RoundQ(a * b, Scale)

\* numpy division: x/0 is +-inf, 0/0 is NaN (with a warning, no exception)
FDiv(a, b) ==
    IF IsNaN(a) \/ IsNaN(b) THEN NaN
    ELSE IF IsInf(a) THEN (IF IsInf(b) THEN NaN
                           ELSE IF Sign(a) * (IF b < 0 THEN -1 ELSE 1) < 0
                                THEN NInf ELSE PInf)
    ELSE IF IsInf(b) THEN 0
    ELSE IF b = 0 THEN (IF a = 0 THEN NaN ELSE IF a < 0 THEN NInf ELSE PInf)
    ELSE RoundQ(a * Scale, b)

\* IEEE comparison: every comparison with NaN is false
FLe(a, b) == ~IsNaN(a) /\ ~IsNaN(b) /\ a <= b

RECURSIVE ISqrt(_)
ISqrt(n) ==
    IF n < 2 THEN n
    ELSE LET s == 2 * ISqrt(n \div 4)
         IN  IF (s + 1) * (s + 1) <= n THEN s + 1 ELSE s

\* np.sqrt: NaN for a negative argument
FSqrt(a) ==
    IF IsNaN(a) THEN NaN
    ELSE IF a < 0 THEN NaN
    ELSE IF a = PInf THEN PInf
    ELSE LET n == a * Scale
             s == ISqrt(n)
         IN  RoundQ(IF n - s * s > s THEN s + 1 ELSE s, 1)

\* exp on [-1/2, 1/2]: 1 + x(1 + x/2 (1 + x/3))
ExpSmall(x) ==
    LET h3 == FAdd(One, FDiv(x, Three))
        h2 == FAdd(One, FMul(FDiv(x, Two), h3))
    IN  FAdd(One, FMul(x, h2))

FSquare(a) == FMul(a, a)

RECURSIVE ExpFinite(_)
ExpFinite(x) ==
    IF 2 * Abs(x) <= Scale THEN ExpSmall(x)
    ELSE FSquare(ExpFinite(FDiv(x, Two)))

\* np.exp: overflows to inf and underflows to 0
FExp(x) ==
    IF IsNaN(x) THEN NaN
    ELSE IF x = PInf THEN PInf
    ELSE IF x = NInf THEN 0
    ELSE ExpFinite(x)

\* np.maximum(a, 0): NaN propagates
FMaximum0(a) == IF IsNaN(a) THEN NaN ELSE IF a > 0 THEN a ELSE 0


\* np.add.reduce over a short vector: left to right
RECURSIVE FSum(_)
FSum(v) == IF Len(v) = 0 THEN 0
           ELSE FAdd(FSum(SubSeq(v, 1, Len(v) - 1)), v[Len(v)])

\* np.mean: NaN for an empty vector (0.0 / 0)
Mean(v) == FDiv(FSum(v), ToFloat(Len(v)))

\* np.std (population): sqrt(mean(abs(x - mean(x))**2))
Std(v) ==
    LET m == Mean(v)
    IN  FSqrt(Mean([i \in 1..Len(v) |-> FSquare(FSub(v[i], m))]))

\* ------------------------------------------------------------------------
\* np.random.default_rng: a seeded generator with a position in its stream
\* ------------------------------------------------------------------------

LcgM == 9

LcgA == 4

LcgC == 1

SeedState(seed) == seed % LcgM

RECURSIVE Advance(_, _)
Advance(x, k) == IF k = 0 THEN x ELSE Advance((LcgA * x + LcgC) % LcgM, k - 1)

\* the standard normal variate a generator state yields: -2.0, 0.0 or 2.0
Normal(x) == ((x \div 3) - 1) * 2 * Scale

\* rng.standard_normal((rows, cols)): the next rows*cols variates, row-major
StandardNormal(g, rows, cols) ==
    [i \in 1..rows |->
        [j \in 1..cols |-> Normal(Advance(g.state, (i - 1) * cols + j))]]

\* the matrix drawn twice
ConsumedTwice(g, count) ==
    [state |-> Advance(g.state, 2 * count), pos |-> g.pos + 2 * count]

Consumed(g, count) ==
    [state |-> Advance(g.state, count), pos |-> g.pos + count]

\* ------------------------------------------------------------------------
\* bounds and inputs
\* ------------------------------------------------------------------------

\* calls made on one engine
MaxCalls == 2

\* n_simulations ranges over 0..MaxSim
MaxSim == 3

\* n_steps of a direct simulate_paths call ranges over 0..MaxSteps
MaxSteps == 2

Seeds == {0, 1}

\* the default n_steps of simulate_paths (252 in the source), scaled down
DefaultSteps == 2

S0Values == {0, 2 * Scale}

KValues == {0, (3 * Scale) \div 2}

TValues == {-Scale, 0, Scale}

rValues == {-4 * Scale, Scale \div 2, 4 * Scale}

sigmaValues == {0, Scale \div 2, (17 * Scale) \div 4}

OptionTypes == {"call", "put", "straddle"}

OptionParams ==
    [S0 : S0Values, K : KValues, T : TValues, r : rValues,
     sigma : sigmaValues, option_type : OptionTypes]

\* 1.96 and 0.5 as floats
Z95 == RoundQ(196 * Scale, 100)

Half == RoundQ(Scale, 2)

VARIABLES
    n_simulations,  \* self.n_simulations
    rng,            \* self.rng
    params,         \* the OptionParams object the caller passes
    op,             \* the method the caller invoked last
    pc,             \* "idle" before the first call, then "returned" or "raised"
    n_steps,        \* simulate_paths: n_steps
    dt,             \* simulate_paths: dt
    Z,              \* simulate_paths: Z
    paths,          \* simulate_paths: paths
    payoffs,        \* price_option: payoffs
    result,         \* price_option: the returned dict, <<>> when none
    exc,            \* the exception raised, "none" when none
    simlog,         \* history: the arguments of every simulate_paths call
    pricelog        \* history: the dict of every price_option call that returned

vars == <<n_simulations, rng, params, op, pc, n_steps, dt, Z, paths,
          payoffs, result, exc, simlog, pricelog>>

\* the documented domain: S0 > 0, K > 0, T > 0, sigma >= 0
InDomain(p) == p.S0 > 0 /\ p.K > 0 /\ p.T > 0 /\ p.sigma >= 0

\* the state before the first call
NoCallYet ==
    /\ op = "none"
    /\ pc = "idle"
    /\ n_steps = 0
    /\ dt = 0
    /\ Z = <<>>
    /\ paths = <<>>
    /\ payoffs = <<>>
    /\ result = <<>>
    /\ exc = "none"
    /\ simlog = <<>>
    /\ pricelog = <<>>

\* MonteCarloEngine(n_simulations, seed), and the params the caller holds
Init ==
    /\ n_simulations \in 0..MaxSim
    /\ \E seed \in Seeds : rng = [state |-> SeedState(seed), pos |-> 0]
    /\ params \in OptionParams
    /\ NoCallYet

\* the same, with every argument in its documented domain
InitInDomain ==
    /\ n_simulations \in 1..MaxSim
    /\ \E seed \in Seeds : rng = [state |-> SeedState(seed), pos |-> 0]
    /\ params \in {p \in OptionParams : InDomain(p)}
    /\ NoCallYet

\* lines 45-46: np.zeros((n, steps + 1)); paths[:, 0] = S0
InitialPaths(n, steps, S0) ==
    [i \in 1..n |-> [j \in 1..(steps + 1) |-> IF j = 1 THEN S0 ELSE 0]]

\* line 51: (r - 0.5 * sigma**2) * dt
Drift(p, d) == FMul(FSub(p.r, FMul(Half, FSquare(p.sigma))), d)

\* the diffusion coefficient without its sigma factor
VolNoSigma(p, d) == FSqrt(d)

\* line 52: sigma * np.sqrt(dt)
Vol(p, d) == FMul(p.sigma, FSqrt(d))

\* lines 50-53, one entry: prev * exp(drift + vol * z)
GbmEntry(prev, z, drift, vol) ==
    FMul(prev, FExp(FAdd(drift, FMul(vol, z))))

\* lines 50-53, one entry of column col from column col - 1
GbmStep(prev, z, p, d) == GbmEntry(prev, z, Drift(p, d), Vol(p, d))

\* each row driven by the draws of the mirrored row
FillColumnMirrored(grid, z, col, p, d) ==
    LET drift == Drift(p, d)
        vol   == Vol(p, d)
    IN  [i \in 1..Len(grid) |->
            [grid[i] EXCEPT ![col + 1] =
                GbmEntry(grid[i][col], z[Len(grid) + 1 - i][col], drift, vol)]]

\* lines 50-53: paths[:, col] from paths[:, col-1] and Z[:, col-1]
FillColumn(grid, z, col, p, d) ==
    LET drift == Drift(p, d)
        vol   == Vol(p, d)
    IN  [i \in 1..Len(grid) |->
            [grid[i] EXCEPT ![col + 1] =
                GbmEntry(grid[i][col], z[i][col], drift, vol)]]

\* lines 49-53: for t in range(1, n_steps + 1), from t = col on
RECURSIVE FillFrom(_, _, _, _, _, _)
FillFrom(grid, z, col, steps, p, d) ==
    IF col > steps THEN grid
    ELSE FillFrom(FillColumn(grid, z, col, p, d), z, col + 1, steps, p, d)

\* lines 39-55, the whole of simulate_paths; T / 0 raises ZeroDivisionError
SimulatePaths(steps) ==
    /\ n_steps' = steps
    /\ simlog' = Append(simlog, [n |-> n_simulations, steps |-> steps,
                                 params |-> params, pos |-> rng.pos])
    /\ IF steps = 0
       THEN /\ pc' = "raised"
            /\ exc' = "ZeroDivisionError"
            /\ dt' = 0
            /\ Z' = <<>>
            /\ paths' = <<>>
            /\ rng' = rng
       ELSE /\ pc' = "returned"
            /\ exc' = "none"
            /\ dt' = FDiv(params.T, ToFloat(steps))
            /\ Z' = StandardNormal(rng, n_simulations, steps)
            /\ rng' = Consumed(rng, n_simulations * steps)
            /\ paths' = FillFrom(InitialPaths(n_simulations, steps, params.S0),
                                 Z', 1, steps, params, dt')
    /\ UNCHANGED <<n_simulations, params>>

CanCall == Len(simlog) < MaxCalls

\* engine.simulate_paths(params, steps)
CallSimulatePaths(steps) ==
    /\ CanCall
    /\ op' = "simulate_paths"
    /\ SimulatePaths(steps)
    /\ payoffs' = <<>>
    /\ result' = <<>>
    /\ UNCHANGED pricelog

\* line 65: paths[:, -1]
LastColumn(grid) == [i \in 1..Len(grid) |-> grid[i][Len(grid[i])]]

\* the payoff without its floor at 0
PayoffNoFloor(p, s) ==
    IF p.option_type = "call" THEN FSub(s, p.K) ELSE FSub(p.K, s)

\* the put payoff for 'put' only, the call payoff for everything else
PayoffDefaultCall(p, s) ==
    IF p.option_type = "put"
    THEN FMaximum0(FSub(p.K, s))
    ELSE FMaximum0(FSub(s, p.K))

\* lines 68-71
Payoff(p, s) ==
    IF p.option_type = "call"
    THEN FMaximum0(FSub(s, p.K))
    ELSE FMaximum0(FSub(p.K, s))

Payoffs(p, S_T) == [i \in 1..Len(S_T) |-> Payoff(p, S_T[i])]

\* line 74 / 78: np.exp(-r * T)
Discount(p) == FExp(FMul(FNeg(p.r), p.T))

\* the interval bounds exchanged
PricingResultSwapped(p, pay, n) ==
    LET option_price == FMul(Discount(p), Mean(pay))
        std_error == FDiv(Std(pay), FSqrt(ToFloat(n)))
        discounted_std_error == FMul(Discount(p), std_error)
        ci_95 == FMul(Z95, discounted_std_error)
    IN  [price |-> option_price,
         std_error |-> discounted_std_error,
         ci_lower |-> FAdd(option_price, ci_95),
         ci_upper |-> FSub(option_price, ci_95)]

\* lines 74-88
PricingResult(p, pay, n) ==
    LET option_price == FMul(Discount(p), Mean(pay))
        std_error == FDiv(Std(pay), FSqrt(ToFloat(n)))
        discounted_std_error == FMul(Discount(p), std_error)
        ci_95 == FMul(Z95, discounted_std_error)
    IN  [price |-> option_price,
         std_error |-> discounted_std_error,
         ci_lower |-> FSub(option_price, ci_95),
         ci_upper |-> FAdd(option_price, ci_95)]

\* engine.price_option(params): line 64 calls simulate_paths(params) with the
\* default n_steps, lines 65-89 reduce the grid it returns; an exception of
\* simulate_paths propagates
CallPriceOption ==
    /\ CanCall
    /\ op' = "price_option"
    /\ SimulatePaths(DefaultSteps)
    /\ IF pc' = "raised"
       THEN /\ payoffs' = <<>>
            /\ result' = <<>>
            /\ UNCHANGED pricelog
       ELSE /\ payoffs' = Payoffs(params, LastColumn(paths'))
            /\ result' = <<PricingResult(params, payoffs', n_simulations)>>
            /\ pricelog' = Append(pricelog, result'[1])

Next ==
    \/ \E steps \in 0..MaxSteps : CallSimulatePaths(steps)
    \/ CallPriceOption

Spec == Init /\ [][Next]_vars

SpecInDomain == InitInDomain /\ [][Next]_vars

\* ------------------------------------------------------------------------
\* properties
\* ------------------------------------------------------------------------

\* price_option has returned its dict
PriceReturned == op = "price_option" /\ pc = "returned"

\* the last call returned, so paths is the grid simulate_paths produced
HasGrid == pc = "returned"

\* every argument of the request is in its documented domain
ValidRequest == InDomain(params) /\ n_simulations >= 1

\* the last column of the grid, as price_option reads it
S_T == LastColumn(paths)

\* C1: any two pricing requests made with the same params, n_simulations,
\* n_steps and seed return identical results, whatever requests came before.
\* (One engine, one params object: every entry of pricelog has the same
\* inputs.)
C1_Reproducible ==
    \A i, j \in DOMAIN pricelog : pricelog[i] = pricelog[j]

\* C2: simulate_paths fails with InvalidParameter whenever T <= 0,
\* n_steps = 0, n_simulations = 0, S0 <= 0 or K <= 0, before any draw is
\* taken and before any grid is produced.
C2_InvalidRejectedEarly ==
    (/\ op = "simulate_paths"
     /\ \/ params.T <= 0
        \/ n_steps = 0
        \/ n_simulations = 0
        \/ params.S0 <= 0
        \/ params.K <= 0)
    => /\ pc = "raised"
       /\ exc = "InvalidParameter"
       /\ rng.pos = simlog[Len(simlog)].pos
       /\ paths = <<>>
       /\ Z = <<>>

\* C3: price_option fails with InvalidParameter when the grid it prices has
\* 0 rows and with ShapeMismatch when the grid has fewer than 1 column, and
\* returns no result in either case.
C3_ShapeRejected ==
    (op = "price_option")
    => /\ Len(paths) = 0 => (exc = "InvalidParameter" /\ result = <<>>)
       /\ (Len(paths) > 0 /\ Len(paths[1]) < 1)
              => (exc = "ShapeMismatch" /\ result = <<>>)

\* C4 as stated: for every valid input the result of price_option satisfies
\* ci_lower <= price <= ci_upper and std_error >= 0.
C4_CiSanityAlways ==
    (PriceReturned /\ ValidRequest)
    => /\ FLe(result[1].ci_lower, result[1].price)
       /\ FLe(result[1].price, result[1].ci_upper)
       /\ FLe(0, result[1].std_error)

\* C4 as amended: for every valid input whose price and std_error are
\* finite, ci_lower <= price <= ci_upper and std_error >= 0.
C4_CiSanityWhenFinite ==
    (/\ PriceReturned
     /\ ValidRequest
     /\ IsFinite(result[1].price)
     /\ IsFinite(result[1].std_error))
    => /\ FLe(result[1].ci_lower, result[1].price)
       /\ FLe(result[1].price, result[1].ci_upper)
       /\ FLe(0, result[1].std_error)

\* C4 witness: a valid request priced with a finite price and a positive
\* finite standard error, so the interval has a width.
C4_Witness ==
    /\ PriceReturned
    /\ ValidRequest
    /\ IsFinite(result[1].price)
    /\ IsFinite(result[1].std_error)
    /\ result[1].std_error > 0
    /\ result[1].ci_lower < result[1].price

\* the payoffs are the floored differences the claim names, each >= 0
PayoffsAsClaimed ==
    \A i \in 1..Len(payoffs) :
        /\ FLe(0, payoffs[i])
        /\ params.option_type = "call"
              => payoffs[i] = FMaximum0(FSub(S_T[i], params.K))
        /\ params.option_type = "put"
              => payoffs[i] = FMaximum0(FSub(params.K, S_T[i]))

\* the same, a payoff being NaN where the terminal price is
PayoffsAsClaimedOrNaN ==
    \A i \in 1..Len(payoffs) :
        /\ FLe(0, payoffs[i]) \/ (IsNaN(S_T[i]) /\ IsNaN(payoffs[i]))
        /\ params.option_type = "call"
              => payoffs[i] = FMaximum0(FSub(S_T[i], params.K))
        /\ params.option_type = "put"
              => payoffs[i] = FMaximum0(FSub(params.K, S_T[i]))

\* C5 as stated: for every valid input every per-path payoff is >= 0
\* (max(S_T - K, 0) for a call, max(K - S_T, 0) for a put) and the returned
\* price is >= 0.
C5_PriceNonNegativeAlways ==
    (PriceReturned /\ ValidRequest)
    => /\ Len(payoffs) = n_simulations
       /\ PayoffsAsClaimed
       /\ FLe(0, result[1].price)

\* C5 as amended: for every valid input every per-path payoff is
\* max(S_T - K, 0) for a call and max(K - S_T, 0) for a put, and is >= 0
\* unless the terminal price S_T is NaN; the returned price is >= 0 unless
\* it is NaN.
C5_PriceNonNegativeOrNaN ==
    (PriceReturned /\ ValidRequest)
    => /\ Len(payoffs) = n_simulations
       /\ PayoffsAsClaimedOrNaN
       /\ (IsNaN(result[1].price) \/ FLe(0, result[1].price))

\* C5 witness: a valid request priced from paths that end both in and out of
\* the money: one payoff is positive, one is floored at 0, the price is
\* positive.
C5_Witness ==
    /\ PriceReturned
    /\ ValidRequest
    /\ \E i, j \in 1..Len(payoffs) : payoffs[i] > 0 /\ payoffs[j] = 0
    /\ IsFinite(result[1].price)
    /\ result[1].price > 0

\* with sigma = 0 every row of the grid is the same, whatever was drawn
RowsAgree == \A i, j \in 1..Len(paths) : paths[i] = paths[j]

PayoffsAgree == \A i, j \in 1..Len(payoffs) : payoffs[i] = payoffs[j]

\* std_error = 0 and ci_lower = price = ci_upper
ZeroWidth ==
    /\ result[1].std_error = 0
    /\ result[1].ci_lower = result[1].price
    /\ result[1].ci_upper = result[1].price

C7_GridShape ==
    (HasGrid /\ n_simulations >= 1 /\ n_steps >= 1)
    => /\ Len(paths) = n_simulations
       /\ Len(Z) = n_simulations
       /\ \A i \in 1..Len(paths) :
            /\ Len(paths[i]) = n_steps + 1
            /\ Len(Z[i]) = n_steps
            /\ paths[i][1] = params.S0
            /\ \A j \in 2..(n_steps + 1) :
                 paths[i][j] = GbmStep(paths[i][j - 1], Z[i][j - 1],
                                       params, dt)

\* C7 witness: simulate_paths returned a grid of two steps whose rows were
\* driven by different draws and ended at different prices.
C7_Witness ==
    /\ op = "simulate_paths"
    /\ pc = "returned"
    /\ n_simulations >= 2
    /\ n_steps = 2
    /\ Z[1] # Z[2]
    /\ paths[1][3] # paths[2][3]
    /\ paths[1][3] # 0

\* the position of the stream after call k of simlog
PosAfter(k) == IF k < Len(simlog) THEN simlog[k + 1].pos ELSE rng.pos

RECURSIVE SumDraws(_)
SumDraws(log) ==
    IF Len(log) = 0 THEN 0
    ELSE SumDraws(SubSeq(log, 1, Len(log) - 1))
         + log[Len(log)].n * log[Len(log)].steps

\* C8: each call of simulate_paths consumes exactly n_simulations * n_steps
\* draws and leaves params and n_simulations as they were; after any
\* sequence of calls the stream position is the sum of n_simulations *
\* n_steps over those calls.
C8_DrawsConsumed ==
    /\ \A k \in DOMAIN simlog :
         /\ PosAfter(k) = simlog[k].pos + simlog[k].n * simlog[k].steps
         /\ simlog[k].params = params
         /\ simlog[k].n = n_simulations
    /\ rng.pos = SumDraws(simlog)

\* C8 witness: two calls with different step counts were made and the
\* stream stands after the draws of both.
C8_Witness ==
    /\ Len(simlog) = 2
    /\ simlog[1].steps = 1
    /\ simlog[2].steps = 2
    /\ n_simulations = 2
    /\ pc = "returned"
    /\ rng.pos = 6

\* C9: price_option has no side effects beyond the value it returns: no step
\* of price_option moves the random source or changes the engine's or the
\* caller's parameters.
C9_PriceOptionPure ==
    [][op' = "price_option"
          => (rng' = rng /\ n_simulations' = n_simulations
              /\ params' = params)]_vars

\* C10: every option_type other than 'call' is priced with the put payoff
\* max(K - S_T, 0) and returns a result instead of an error.
C10_NotCallIsPut ==
    (op = "price_option" /\ params.option_type # "call")
    => /\ pc = "returned"
       /\ exc = "none"
       /\ Len(result) = 1
       /\ Len(payoffs) = n_simulations
       /\ \A i \in 1..Len(payoffs) :
            payoffs[i] = FMaximum0(FSub(params.K, S_T[i]))

\* C10 witness: an option_type that is neither 'call' nor 'put' was priced,
\* with a path that ends below the strike and pays K - S_T.
C10_Witness ==
    /\ PriceReturned
    /\ params.option_type = "straddle"
    /\ \E i \in 1..Len(payoffs) :
         /\ IsFinite(S_T[i])
         /\ S_T[i] < params.K
         /\ payoffs[i] > 0
    /\ IsFinite(result[1].price)
    /\ result[1].price > 0

=============================================================================
